---- MODULE Spec2Model ----
(***************************************************************************)
(* A model of autofill/driver.py (AutofillDriver): the workflow state      *)
(* machine, the upload/insert sequencer, and the remote session and        *)
(* download pipeline it works against.                                     *)
(*                                                                         *)
(* The driver is one thread; its position is pc.  The session (browser)    *)
(* and the download workers are separate processes whose steps interleave  *)
(* with the driver's.                                                      *)
(***************************************************************************)
EXTENDS Naturals, Sequences, FiniteSets

\* ------------------------------------------------------------------ bounds
MaxFronts == 2      \* most descriptors in the front collection
MaxBacks == 1       \* most descriptors in the back collection
THREADS == 2        \* worker count of the download pool
MaxEvents == 1      \* disturbances at a time: see Events

\* ------------------------------------------------------------------ state
VARIABLES
    caller,     \* "execute": AutofillDriver.execute; "test": a caller invoking the public methods itself
    pc,         \* the driver thread's position
    cur,        \* the public operation in progress, or "none"
    pre,        \* Workflow State when cur was invoked
    result,     \* the last public operation that ended: [op, outcome, pre, post, at]
    ip,         \* index of the next call of ExecOrder
    probes,     \* calls made out of that order so far (a test caller ends with one)
    state,      \* AutofillDriver.state
    action,     \* AutofillDriver.action
    trace,      \* history: the distinct values state has taken, in order
    nCards,     \* [front |-> len(order.fronts.cards), back |-> len(order.backs.cards)]
    pool,       \* "off" before download_images is called, "on" after
    tasks,      \* the download tasks submitted to the pool, in submission order
    tstat,      \* status of each task: "pending", "marked", "pushed", "failed"
    downloaded, \* the descriptors whose downloaded flag is true
    queue,      \* [face -> the collection's delivery queue]
    pushed,     \* history: [face -> every descriptor ever put on the queue, in order]
    face,       \* the face the driver is working on
    remaining,  \* iterations left of upload_and_insert_images' loop
    image,      \* the descriptor popped from the queue
    num_elems,  \* upload_image's sample of the completed-uploads list size
    pid,        \* upload_image's return value (0 is None)
    slotIx,     \* insert_image's position in image.slots
    uploaded,   \* upload_bar's count
    mode,       \* history: [face -> the arguments of the setMode commands issued for it]
    cmds,       \* history: the session commands issued by the driver, <<kind, a, b>>
    submitted,  \* history: the assets sent to the session's file input, in order
    uploads,    \* session: the completed uploads (elements with id upload_*), by asset
    inflight,   \* session: the asset being uploaded (progress container shown), or NoAsset
    busy,       \* session: the loading indicator sysdiv_wait is visible
    fast,       \* uploads that finished within the submit loop's sleep
    faults,     \* session commands that have raised an exception so far
    dialogs,    \* unsolicited dialogs dismissed during the current call of upload_image
    missing     \* the descriptors whose local file is gone

vars == <<caller, pc, cur, pre, result, ip, probes, state, action, trace, nCards,
          pool, tasks, tstat, downloaded, queue, pushed, face, remaining, image,
          num_elems, pid, slotIx, uploaded, mode, cmds, submitted, uploads,
          inflight, busy, fast, faults, dialogs, missing>>

driverVars == <<pc, cur, pre, result, ip, probes, state, action, trace, face, remaining,
                image, num_elems, pid, slotIx, uploaded>>
orderVars == <<caller, nCards, missing>>
pipeVars == <<pool, tasks, tstat, downloaded>>
sessVars == <<mode, cmds, submitted, uploads, inflight, busy, fast, faults, dialogs>>

\* ------------------------------------------------------------------ constants of the program
Faces == {"front", "back"}
Ops == {"define_order", "insert_fronts", "insert_backs"}
ExecOrder == <<"define_order", "insert_fronts", "insert_backs">>
NoAsset == <<>>
NoResult == [op |-> "none", outcome |-> "none", pre |-> "none", post |-> "none", at |-> "none"]

\* The state each public operation asserts first.
EntryState(o) ==
    CASE o = "define_order" -> "DefiningOrder"
      [] o = "insert_fronts" -> "PagingToFronts"
      [] o = "insert_backs" -> "PagingToBacks"

\* The states the set_state calls of the workflow move to.
PostInitState == "DefiningOrder"
DefineOrderExit == "PagingToFronts"
PageToFrontsExit == "InsertingFronts"
InsertFrontsExit_skip == "PagingToReview"
InsertFrontsExit == "PagingToBacks"
PageToBacksExit == "InsertingBacks"
InsertBacksExit_stale == "InsertingBacks"
InsertBacksExit == "PagingToReview"

ExitState(o) ==
    CASE o = "define_order" -> DefineOrderExit
      [] o = "insert_fronts" -> InsertFrontsExit
      [] o = "insert_backs" -> InsertBacksExit

\* assert_state: TRUE when it passes, FALSE when it raises InvalidStateException.
assert_state_never(current, expected) == TRUE
assert_state(current, expected) == current = expected

\* The argument of setMode('ImageText', m): 0 different images, 1 same image.
page_to_fronts_mode_bycount(n) == IF n = 1 THEN 1 ELSE 0
page_to_fronts_mode(n) == 0
page_to_backs_mode_always(n) == 0
page_to_backs_mode(n) == IF n = 1 THEN 1 ELSE 0

\* The order: descriptor i of face f is <<f, i>>.  The first descriptor of a face has
\* the slot list <<0>>, the second <<2, 5, 2>>, descriptor i > 2 has <<i>>.
Cards(f) == {<<f, i>> : i \in 1..nCards[f]}
Slots(a) ==
    CASE a[2] = 1 -> <<0>>
      [] a[2] = 2 -> <<2, 5, 2>>
      [] OTHER -> <<a[2]>>

\* insert_image's iteration over image.slots.
insert_slots_dedup(s) == IF Len(s) = 3 THEN <<s[1], s[2]>> ELSE s
insert_slots(s) == s

\* range(len(images.cards)) of upload_and_insert_images.
loop_count_extra(n) == n + 1
loop_count(n) == n

\* upload_bar.update(): the counter after the call.
upload_bar_update_twice(n) == n + 2
upload_bar_update(n) == n + 1

\* images.queue.get(): the entry taken and the queue that is left.
queue_get_last(q) == <<q[Len(q)], SubSeq(q, 1, Len(q) - 1)>>
queue_get(q) == <<Head(q), Tail(q)>>

\* insert_image: "if pid".  0 stands for None.
has_pid_always(p) == TRUE
has_pid(p) == p # 0

\* The except clause of upload_image's polling loop: the exceptions it catches.
poll_catches_none(e) == FALSE
poll_catches_all(e) == TRUE
poll_catches(e) == e = "UnexpectedAlert"

\* execute(): the download tasks given to the pool, fronts first.
CardSeq(f, n) == [i \in 1..n |-> <<f, i>>]
download_tasks_twice(nf, nb) == CardSeq("front", nf) \o CardSeq("front", nf)
download_tasks(nf, nb) == CardSeq("front", nf) \o CardSeq("back", nb)

\* The disturbances the environment has put in the run's way: uploads that finished
\* within the submit loop's sleep, session commands that raised, dialogs shown to
\* the polling loop in progress, local files gone, fetches failed.
Events ==
    fast + faults + dialogs + Cardinality(missing)
         + Cardinality({i \in 1..Len(tasks) : tstat[i] = "failed"})

\* set_state: state and action change together; trace records a new state value.
SetState(s, a) ==
    /\ state' = s
    /\ action' = a
    /\ trace' = IF s = state THEN trace ELSE Append(trace, s)

\* A public operation ends: normally, or with an exception that leaves the object as it is.
\* execute() calls the next operation after a normal return and stops on an exception.
\* A test caller catches the exception; after a session error it gives up its ordered
\* calls.  It ends its run with one call out of that order.
Ends(outcome) ==
    /\ result' = [op |-> cur, outcome |-> outcome, pre |-> pre, post |-> state', at |-> pc]
    /\ cur' = "none"
    /\ pre' = "none"
    /\ pc' = IF probes > 0 \/ (caller = "execute" /\ outcome # "ok") THEN "halted" ELSE "idle"
    /\ ip' = IF outcome \in {"SessionError", "UnexpectedAlert"} THEN Len(ExecOrder) + 1 ELSE ip

Raise(outcome) ==
    /\ UNCHANGED <<state, action, trace>>
    /\ Ends(outcome)

Cmd(kind, a, b) == cmds' = Append(cmds, <<kind, a, b>>)

\* ------------------------------------------------------------------ initial state
Init ==
    /\ caller \in {"execute", "test"}
    /\ nCards \in {[front |-> a, back |-> b] : a \in 0..MaxFronts, b \in 0..MaxBacks}
    /\ pc = "new"
    /\ cur = "none"
    /\ pre = "none"
    /\ result = NoResult
    /\ ip = 1
    /\ probes = 0
    /\ state = "Initialising"
    /\ action = ""
    /\ trace = <<"Initialising">>
    /\ pool = "off"
    /\ tasks = <<>>
    /\ tstat = <<>>
    /\ downloaded = {}
    /\ queue = [f \in Faces |-> <<>>]
    /\ pushed = [f \in Faces |-> <<>>]
    /\ face = "front"
    /\ remaining = 0
    /\ image = NoAsset
    /\ num_elems = 0
    /\ pid = 0
    /\ slotIx = 0
    /\ uploaded = 0
    /\ mode = [f \in Faces |-> <<>>]
    /\ cmds = <<>>
    /\ submitted = <<>>
    /\ uploads = <<>>
    /\ inflight = NoAsset
    /\ busy = FALSE
    /\ fast = 0
    /\ faults = 0
    /\ dialogs = 0
    /\ missing = {}

\* ------------------------------------------------------------------ construction and calls
\* __attrs_post_init__: configure_bars, driver.get, set_state(defining_order).
PostInit ==
    /\ pc = "new"
    /\ pc' = "idle"
    /\ uploaded' = 0
    /\ Cmd("get", 0, 0)
    /\ SetState(PostInitState, "")
    /\ UNCHANGED <<cur, pre, result, ip, probes, face, remaining, image, num_elems, pid, slotIx>>
    /\ UNCHANGED <<orderVars, pipeVars, queue, pushed>>
    /\ UNCHANGED <<mode, submitted, uploads, inflight, busy, fast, faults, dialogs>>

\* execute(): both collections' download_images, before the first workflow call.
StartDownloads ==
    /\ pc = "idle"
    /\ pool = "off"
    /\ pool' = "on"
    /\ tasks' = download_tasks(nCards["front"], nCards["back"])
    /\ tstat' = [i \in 1..Len(tasks') |-> "pending"]
    /\ UNCHANGED <<driverVars, orderVars, downloaded, queue, pushed, sessVars>>

\* A public method is invoked: the next one of execute()'s order, or (by a test
\* caller) another one.  execute() calls while the pool is downloading; a test caller
\* lets the downloads end first.
Call(o) ==
    /\ pc = "idle"
    /\ pool = "on"
    /\ caller = "test" => \A i \in 1..Len(tasks) : tstat[i] \in {"pushed", "failed"}
    /\ LET ordered == ip <= Len(ExecOrder) /\ o = ExecOrder[ip] IN
         \/ /\ ordered
            /\ ip' = ip + 1
            /\ probes' = probes
         \/ /\ ~ordered
            /\ caller = "test"
            /\ probes' = probes + 1
            /\ ip' = ip
    /\ pc' = "enter"
    /\ cur' = o
    /\ pre' = state
    /\ result' = NoResult
    /\ face' = IF o = "insert_backs" THEN "back" ELSE "front"
    /\ UNCHANGED <<state, action, trace, remaining, image, num_elems, pid, slotIx, uploaded>>
    /\ UNCHANGED <<orderVars, pipeVars, queue, pushed, sessVars>>

\* The first statement of define_order, page_to_fronts, page_to_backs: assert_state.
Enter ==
    /\ pc = "enter"
    /\ IF assert_state(state, EntryState(cur))
       THEN /\ pc' = CASE cur = "define_order" -> "do_configure"
                       [] cur = "insert_fronts" -> "ptf_personalize"
                       [] cur = "insert_backs" -> "ptb_next1"
            /\ UNCHANGED <<cur, pre, result, ip, state, action, trace>>
       ELSE Raise("InvalidState")
    /\ UNCHANGED <<probes, face, remaining, image, num_elems, pid, slotIx, uploaded>>
    /\ UNCHANGED <<orderVars, pipeVars, queue, pushed, sessVars>>

\* define_order: the stock, quantity and foil selections, then set_state(paging_to_fronts).
DefineOrder ==
    /\ pc = "do_configure"
    /\ Cmd("configure", 0, 0)
    /\ SetState(DefineOrderExit, "")
    /\ Ends("ok")
    /\ UNCHANGED <<probes, face, remaining, image, num_elems, pid, slotIx, uploaded>>
    /\ UNCHANGED <<orderVars, pipeVars, queue, pushed>>
    /\ UNCHANGED <<mode, submitted, uploads, inflight, busy, fast, faults, dialogs>>

\* ------------------------------------------------------------------ page transitions
Step(from, to) ==
    /\ pc = from
    /\ pc' = to
    /\ UNCHANGED <<cur, pre, result, ip, probes, face>>

\* page_to_fronts: doPersonalize(...).
PageToFrontsPersonalize ==
    /\ Step("ptf_personalize", "ptf_quantity")
    /\ Cmd("personalize", 0, 0)
    /\ busy' = TRUE
    /\ UNCHANGED <<state, action, trace, remaining, image, num_elems, pid, slotIx, uploaded>>
    /\ UNCHANGED <<orderVars, pipeVars, queue, pushed>>
    /\ UNCHANGED <<mode, submitted, uploads, inflight, fast, faults, dialogs>>

\* page_to_fronts: switch_to_frame, then the card number is set.
PageToFrontsQuantity ==
    /\ Step("ptf_quantity", "ptf_mode")
    /\ Cmd("quantity", 0, 0)
    /\ UNCHANGED <<state, action, trace, remaining, image, num_elems, pid, slotIx, uploaded>>
    /\ UNCHANGED <<orderVars, pipeVars, queue, pushed>>
    /\ UNCHANGED <<mode, submitted, uploads, inflight, busy, fast, faults, dialogs>>

\* page_to_fronts: different_images(), default_content, set_state(inserting_fronts).
PageToFrontsMode ==
    /\ Step("ptf_mode", "ins_assert")
    /\ LET m == page_to_fronts_mode(nCards["front"]) IN
         /\ Cmd("setMode", m, 0)
         /\ mode' = [mode EXCEPT !["front"] = Append(@, m)]
    /\ SetState(PageToFrontsExit, "")
    /\ UNCHANGED <<remaining, image, num_elems, pid, slotIx, uploaded>>
    /\ UNCHANGED <<orderVars, pipeVars, queue, pushed>>
    /\ UNCHANGED <<submitted, uploads, inflight, busy, fast, faults, dialogs>>

\* page_to_backs: next_step() is wait() then oDesign.setNextStep(); it runs twice,
\* with a wait() and the click on closeBtn (if present) in between.
PageToBacksNext(from, to) ==
    /\ Step(from, to)
    /\ ~busy
    /\ Cmd("setNextStep", 0, 0)
    /\ busy' = TRUE
    /\ UNCHANGED <<state, action, trace, remaining, image, num_elems, pid, slotIx, uploaded>>
    /\ UNCHANGED <<orderVars, pipeVars, queue, pushed>>
    /\ UNCHANGED <<mode, submitted, uploads, inflight, fast, faults, dialogs>>

PageToBacksNext1 == PageToBacksNext("ptb_next1", "ptb_close")
PageToBacksNext2 == PageToBacksNext("ptb_next2", "ptb_mode")

PageToBacksClose ==
    /\ Step("ptb_close", "ptb_next2")
    /\ ~busy
    /\ Cmd("closeBtn", 0, 0)
    /\ UNCHANGED <<state, action, trace, remaining, image, num_elems, pid, slotIx, uploaded>>
    /\ UNCHANGED <<orderVars, pipeVars, queue, pushed>>
    /\ UNCHANGED <<mode, submitted, uploads, inflight, busy, fast, faults, dialogs>>

\* page_to_backs: same_images() or different_images(), default_content,
\* set_state(inserting_backs).
PageToBacksMode ==
    /\ Step("ptb_mode", "ins_assert")
    /\ LET m == page_to_backs_mode(nCards["back"]) IN
         /\ Cmd("setMode", m, 0)
         /\ mode' = [mode EXCEPT !["back"] = Append(@, m)]
    /\ SetState(PageToBacksExit, "")
    /\ UNCHANGED <<remaining, image, num_elems, pid, slotIx, uploaded>>
    /\ UNCHANGED <<orderVars, pipeVars, queue, pushed>>
    /\ UNCHANGED <<submitted, uploads, inflight, busy, fast, faults, dialogs>>

\* insert_fronts / insert_backs: assert_state(inserting_*), then the sequencer's loop begins.
InsertAssert ==
    /\ pc = "ins_assert"
    /\ IF assert_state(state, IF cur = "insert_fronts" THEN "InsertingFronts" ELSE "InsertingBacks")
       THEN /\ pc' = "seq"
            /\ remaining' = loop_count(nCards[face])
            /\ UNCHANGED <<cur, pre, result, ip, state, action, trace>>
       ELSE /\ Raise("InvalidState")
            /\ UNCHANGED remaining
    /\ UNCHANGED <<probes, face, image, num_elems, pid, slotIx, uploaded>>
    /\ UNCHANGED <<orderVars, pipeVars, queue, pushed, sessVars>>

\* ------------------------------------------------------------------ the sequencer
\* upload_and_insert_images: images.queue.get() blocks while the queue is empty.
\* num_elems, pid and the slot position are locals of the calls made for the image.
SeqGet ==
    /\ pc = "seq"
    /\ remaining > 0
    /\ queue[face] # <<>>
    /\ image' = queue_get(queue[face])[1]
    /\ queue' = [queue EXCEPT ![face] = queue_get(@)[2]]
    /\ pc' = IF image' \in downloaded THEN "u_start" ELSE "seq_update"
    /\ num_elems' = 0
    /\ pid' = 0
    /\ slotIx' = 0
    /\ UNCHANGED <<cur, pre, result, ip, probes, state, action, trace, face, remaining, uploaded>>
    /\ UNCHANGED <<orderVars, pipeVars, pushed, sessVars>>

\* The loop is over: insert_fronts / insert_backs set their exit state and return.
SeqDone ==
    /\ pc = "seq"
    /\ remaining = 0
    /\ SetState(ExitState(cur), "")
    /\ Ends("ok")
    /\ UNCHANGED <<probes, face, remaining, image, num_elems, pid, slotIx, uploaded>>
    /\ UNCHANGED <<orderVars, pipeVars, queue, pushed, sessVars>>

\* upload_bar.update(), once per iteration.
SeqUpdate ==
    /\ Step("seq_update", "seq")
    /\ uploaded' = upload_bar_update(uploaded)
    /\ remaining' = remaining - 1
    /\ UNCHANGED <<state, action, trace, image, num_elems, pid, slotIx>>
    /\ UNCHANGED <<orderVars, pipeVars, queue, pushed, sessVars>>

\* ------------------------------------------------------------------ upload_image
\* image.file_exists(): the descriptor's local file is on disk.
file_exists(a) == a \in downloaded /\ a \notin missing

\* set_state(self.state, 'Uploading ...'); num_elems sampled.  Without the file:
\* set_state(self.state) and None is returned.
UploadStart ==
    /\ pc = "u_start"
    /\ IF file_exists(image)
       THEN /\ pc' = "u_busywait"
            /\ SetState(state, "Uploading")
            /\ num_elems' = Len(uploads)
            /\ pid' = pid
       ELSE /\ pc' = "i_start"
            /\ SetState(state, "")
            /\ pid' = 0
            /\ num_elems' = num_elems
    /\ UNCHANGED <<cur, pre, result, ip, probes, face, remaining, image, slotIx, uploaded>>
    /\ UNCHANGED <<orderVars, pipeVars, queue, pushed, sessVars>>

\* while progress_container display != "none": sleep(3)
UploadBusyWait ==
    /\ Step("u_busywait", "u_submit")
    /\ inflight = NoAsset
    /\ UNCHANGED <<state, action, trace, remaining, image, num_elems, pid, slotIx, uploaded>>
    /\ UNCHANGED <<orderVars, pipeVars, queue, pushed, sessVars>>

\* while progress_container display == "none": send_keys(image.file_path); sleep(1)
UploadSubmit ==
    /\ pc = "u_submit"
    /\ IF inflight = NoAsset
       THEN /\ pc' = "u_submit"
            /\ submitted' = Append(submitted, image)
            /\ inflight' = image
            /\ Cmd("upload", Len(submitted) + 1, 0)
       ELSE /\ pc' = "u_poll"
            /\ UNCHANGED <<submitted, inflight, cmds>>
    /\ UNCHANGED <<cur, pre, result, ip, probes, face>>
    /\ UNCHANGED <<state, action, trace, remaining, image, num_elems, pid, slotIx, uploaded>>
    /\ UNCHANGED <<orderVars, pipeVars, queue, pushed>>
    /\ UNCHANGED <<mode, uploads, busy, fast, faults, dialogs>>

\* The polling loop: once the list of uploads is longer than num_elems, the pid of
\* its last element is returned.  The pid of an upload is its place in the list.
UploadPoll ==
    /\ Step("u_poll", "i_start")
    /\ Len(uploads) > num_elems
    /\ pid' = Len(uploads)
    /\ UNCHANGED <<state, action, trace, remaining, image, num_elems, slotIx, uploaded>>
    /\ UNCHANGED <<orderVars, pipeVars, queue, pushed, sessVars>>

\* ------------------------------------------------------------------ insert_image
\* if pid: set_state(self.state, 'Inserting ...'); "l = PageLayout.prototype"
InsertStart ==
    /\ pc = "i_start"
    /\ IF has_pid(pid)
       THEN /\ pc' = "i_slot"
            /\ SetState(state, "Inserting")
            /\ Cmd("layout", 0, 0)
            /\ slotIx' = 1
       ELSE /\ pc' = "seq_update"
            /\ UNCHANGED <<state, action, trace, cmds, slotIx>>
    /\ dialogs' = 0
    /\ UNCHANGED <<cur, pre, result, ip, probes, face, remaining, image, num_elems, pid, uploaded>>
    /\ UNCHANGED <<orderVars, pipeVars, queue, pushed>>
    /\ UNCHANGED <<mode, submitted, uploads, inflight, busy, fast, faults>>

\* for slot in image.slots: applyDragPhoto(slot, pid); after the loop set_state(self.state).
InsertSlot ==
    /\ pc = "i_slot"
    /\ LET s == insert_slots(Slots(image)) IN
       IF slotIx <= Len(s)
       THEN /\ pc' = "i_wait"
            /\ Cmd("insert", pid, s[slotIx])
            /\ busy' = TRUE
            /\ UNCHANGED <<state, action, trace>>
       ELSE /\ pc' = "seq_update"
            /\ SetState(state, "")
            /\ UNCHANGED <<cmds, busy>>
    /\ UNCHANGED <<cur, pre, result, ip, probes, face, remaining, image, num_elems, pid, slotIx, uploaded>>
    /\ UNCHANGED <<orderVars, pipeVars, queue, pushed>>
    /\ UNCHANGED <<mode, submitted, uploads, inflight, fast, faults, dialogs>>

\* wait(): returns once sysdiv_wait is invisible; a timeout retries the wait.
InsertWait ==
    /\ Step("i_wait", "i_slot")
    /\ ~busy
    /\ slotIx' = slotIx + 1
    /\ UNCHANGED <<state, action, trace, remaining, image, num_elems, pid, uploaded>>
    /\ UNCHANGED <<orderVars, pipeVars, queue, pushed, sessVars>>

\* ------------------------------------------------------------------ the session
\* The positions at which the driver's next statement is a session command.
CommandPcs == {"do_configure", "ptf_personalize", "ptf_quantity", "ptf_mode",
               "ptb_next1", "ptb_close", "ptb_next2", "ptb_mode",
               "u_busywait", "u_submit", "u_poll", "i_start", "i_slot"}

\* The session rejects a command (e.g. JavaScriptException, NoSuchElementException).
\* Unless the polling loop's except clause catches it there, nothing does, and it
\* leaves the public operation.
SessionCommandFails ==
    /\ pc \in CommandPcs
    /\ pc = "i_start" => pid # 0
    /\ Events < MaxEvents
    /\ faults' = faults + 1
    /\ IF pc = "u_poll" /\ poll_catches("SessionError")
       THEN UNCHANGED <<pc, cur, pre, result, ip, state, action, trace>>
       ELSE Raise("SessionError")
    /\ UNCHANGED <<probes, face, remaining, image, num_elems, pid, slotIx, uploaded>>
    /\ UNCHANGED <<orderVars, pipeVars, queue, pushed>>
    /\ UNCHANGED <<mode, cmds, submitted, uploads, inflight, busy, fast, dialogs>>

\* The positions at which the driver's next session command is sent outside the
\* alert_handler decorator: define_order's selections, switch_to.default_content(),
\* the click on closeBtn, and the element lookups and send_keys of upload_image
\* (those before its busy-wait loop count with that loop).
BareCommandPcs == {"do_configure", "ptf_mode", "ptb_close", "ptb_mode",
                   "u_busywait", "u_submit", "u_poll"}

\* The session shows an unsolicited dialog (the user clicked on the window): the
\* driver's next command raises UnexpectedAlertPresentException.  The polling loop
\* catches it, accepts the dialog and polls again; elsewhere nothing catches it.
\* (Under alert_handler the dialog is accepted and the command goes through: the
\* driver is where it would be without the dialog.)  In page_to_fronts and
\* page_to_backs the bare command is switch_to.default_content(), which follows the
\* mode selection.
UnsolicitedDialog ==
    /\ pc \in BareCommandPcs
    /\ Events < MaxEvents
    /\ IF pc = "u_poll" /\ poll_catches("UnexpectedAlert")
       THEN /\ dialogs' = dialogs + 1
            /\ UNCHANGED <<pc, cur, pre, result, ip, state, action, trace, faults>>
       ELSE /\ faults' = faults + 1
            /\ Raise("UnexpectedAlert")
            /\ UNCHANGED dialogs
    /\ IF pc \in {"ptf_mode", "ptb_mode"}
       THEN LET m == IF pc = "ptf_mode" THEN page_to_fronts_mode(nCards[face])
                                       ELSE page_to_backs_mode(nCards[face]) IN
              /\ Cmd("setMode", m, 0)
              /\ mode' = [mode EXCEPT ![face] = Append(@, m)]
       ELSE UNCHANGED <<mode, cmds>>
    /\ UNCHANGED <<probes, face, remaining, image, num_elems, pid, slotIx, uploaded>>
    /\ UNCHANGED <<orderVars, pipeVars, queue, pushed>>
    /\ UNCHANGED <<submitted, uploads, inflight, busy, fast>>

\* The local file of the descriptor whose upload is about to begin is gone.
FileLost ==
    /\ pc = "u_start"
    /\ image \notin missing
    /\ Events < MaxEvents
    /\ missing' = missing \cup {image}
    /\ UNCHANGED <<driverVars, caller, nCards, pipeVars, queue, pushed, sessVars>>

\* The upload in progress completes: a new upload_* element, the progress container hidden.
UploadCompletes ==
    /\ inflight # NoAsset
    /\ pc = "u_submit" => Events < MaxEvents
    /\ uploads' = Append(uploads, inflight)
    /\ inflight' = NoAsset
    /\ fast' = IF pc = "u_submit" THEN fast + 1 ELSE fast
    /\ UNCHANGED <<driverVars, orderVars, pipeVars, queue, pushed>>
    /\ UNCHANGED <<mode, cmds, submitted, busy, faults, dialogs>>

\* The page finishes loading: sysdiv_wait becomes invisible.
LoadingDone ==
    /\ busy
    /\ busy' = FALSE
    /\ UNCHANGED <<driverVars, orderVars, pipeVars, queue, pushed>>
    /\ UNCHANGED <<mode, cmds, submitted, uploads, inflight, fast, faults, dialogs>>

\* ------------------------------------------------------------------ the download pipeline
\* The tasks a worker is busy with: marked and not yet put on the queue.
Active == {i \in 1..Len(tasks) : tstat[i] = "marked"}

\* The pool runs the tasks in submission order, at most THREADS at a time.
Runnable(i) ==
    /\ pool = "on"
    /\ tstat[i] = "pending"
    /\ \A j \in 1..(i - 1) : tstat[j] # "pending"
    /\ Cardinality(Active) < THREADS

\* A worker takes the task; the file is there or its fetch succeeds: downloaded = true.
FetchSucceeds(i) ==
    /\ Runnable(i)
    /\ tstat' = [tstat EXCEPT ![i] = "marked"]
    /\ downloaded' = downloaded \cup {tasks[i]}
    /\ UNCHANGED <<driverVars, orderVars, pool, tasks, queue, pushed, sessVars>>

\* A worker takes the task and its fetch fails: downloaded stays false and the
\* descriptor is not enqueued.  (A test caller's files are all there.)
FetchFails(i) ==
    /\ Runnable(i)
    /\ caller = "execute"
    /\ Events < MaxEvents
    /\ tasks[i] \notin downloaded
    /\ tstat' = [tstat EXCEPT ![i] = "failed"]
    /\ UNCHANGED <<driverVars, orderVars, pool, tasks, downloaded, queue, pushed, sessVars>>

\* After marking, the descriptor is put on its collection's queue.
Push(i) ==
    /\ tstat[i] = "marked"
    /\ tstat' = [tstat EXCEPT ![i] = "pushed"]
    /\ LET f == tasks[i][1] IN
         /\ queue' = [queue EXCEPT ![f] = Append(@, tasks[i])]
         /\ pushed' = [pushed EXCEPT ![f] = Append(@, tasks[i])]
    /\ UNCHANGED <<driverVars, orderVars, pool, tasks, downloaded, sessVars>>

\* ------------------------------------------------------------------ the specification
Driver ==
    \/ PostInit
    \/ StartDownloads
    \/ \E o \in Ops : Call(o)
    \/ Enter
    \/ DefineOrder
    \/ PageToFrontsPersonalize
    \/ PageToFrontsQuantity
    \/ PageToFrontsMode
    \/ PageToBacksNext1
    \/ PageToBacksClose
    \/ PageToBacksNext2
    \/ PageToBacksMode
    \/ InsertAssert
    \/ SeqGet
    \/ SeqDone
    \/ SeqUpdate
    \/ UploadStart
    \/ UploadBusyWait
    \/ UploadSubmit
    \/ UploadPoll
    \/ InsertStart
    \/ InsertSlot
    \/ InsertWait

Session ==
    \/ SessionCommandFails
    \/ UnsolicitedDialog
    \/ FileLost
    \/ UploadCompletes
    \/ LoadingDone

Workers ==
    \E i \in 1..Len(tasks) :
        \/ FetchSucceeds(i)
        \/ FetchFails(i)
        \/ Push(i)

Next == Driver \/ Session \/ Workers

Spec == Init /\ [][Next]_vars

\* execute() alone, with the scheduling it runs under: the driver thread and the pool's
\* workers keep running, the session finishes every upload and every page load.
InitExecute == Init /\ caller = "execute"
Fairness ==
    /\ WF_vars(Driver)
    /\ WF_vars(Workers)
    /\ WF_vars(UploadCompletes)
    /\ WF_vars(LoadingDone)
FairSpec == InitExecute /\ [][Next]_vars /\ Fairness

\* ------------------------------------------------------------------ claims
\* The entry and exit states the documentation declares for the public operations.
DeclaredEntry == [define_order |-> "DefiningOrder", insert_fronts |-> "PagingToFronts",
                  insert_backs |-> "PagingToBacks"]
DeclaredExit == [define_order |-> "PagingToFronts", insert_fronts |-> "PagingToBacks",
                 insert_backs |-> "PagingToReview"]

\* C1: a public operation invoked in a state other than its declared entry state
\* does nothing but fail: while it is in progress it has not got past its first
\* statement and the state is the one it was invoked in, and when it has ended it has
\* ended with InvalidStateException, the state being what it was before the call.
C1_WrongStateCallFails ==
    /\ (cur # "none" /\ pre # DeclaredEntry[cur]) => (pc = "enter" /\ state = pre)
    /\ (result.op # "none" /\ result.pre # DeclaredEntry[result.op]) =>
          /\ result.outcome = "InvalidState"
          /\ result.post = result.pre
          /\ state = result.pre

\* C1 witness: insert_backs was invoked in InsertingFronts (where a failed insert_fronts
\* left the workflow) and has ended with InvalidStateException.
C1_Witness ==
    /\ result.op = "insert_backs"
    /\ result.outcome = "InvalidState"
    /\ result.pre = "InsertingFronts"

\* The total order the documentation gives the Workflow States.
StateOrder == <<"Initialising", "DefiningOrder", "PagingToFronts", "InsertingFronts",
                "PagingToBacks", "InsertingBacks", "PagingToReview">>

\* C2: the distinct values the Workflow State has taken are, in order, a prefix of
\* Initialising, DefiningOrder, PagingToFronts, InsertingFronts, PagingToBacks,
\* InsertingBacks, PagingToReview, and the current state is the last of them.
C2_StatePrefix ==
    /\ Len(trace) <= Len(StateOrder)
    /\ \A i \in 1..Len(trace) : trace[i] = StateOrder[i]
    /\ state = trace[Len(trace)]

\* C2 witness: a run that ended in a session error after five transitions.
C2_Witness ==
    /\ result.outcome = "SessionError"
    /\ state = "InsertingBacks"
    /\ Len(trace) = 6

\* C3: after a normal return of a public operation the Workflow State is that
\* operation's declared exit state.
C3_NormalReturnExit ==
    result.outcome = "ok" =>
        /\ result.post = DeclaredExit[result.op]
        /\ state = result.post

\* C3 witness: insert_backs has returned normally after uploading a back.
C3_Witness ==
    /\ result.op = "insert_backs"
    /\ result.outcome = "ok"
    /\ nCards["back"] = 1
    /\ uploaded = nCards["front"] + 1

\* What has happened to the tasks of face f.
TasksOf(f) == {i \in 1..Len(tasks) : tasks[i][1] = f}
FailedOf(f) == {i \in TasksOf(f) : tstat[i] = "failed"}
PipelineDone(f) == pool = "on" /\ \A i \in TasksOf(f) : tstat[i] \in {"pushed", "failed"}
AnyFetchFailed == \E i \in 1..Len(tasks) : tstat[i] = "failed"

\* The number of entries of sequence s that satisfy Test.
CountWhere(s, Test(_)) == Cardinality({i \in 1..Len(s) : Test(s[i])})

SequencerStuck(f) ==
    /\ face = f
    /\ pc = "seq"
    /\ remaining > 0
    /\ queue[f] = <<>>
    /\ PipelineDone(f)

\* C5 (as claimed): when the fetch of exactly one descriptor of a face has failed and
\* the face's other fetches are over, the queue has received all but one descriptor and
\* the sequencer is not left waiting on the empty queue, so the face's phase ends.
C5_RunCompletesWithOneFailedFetch ==
    \A f \in Faces :
        (PipelineDone(f) /\ Cardinality(FailedOf(f)) = 1) =>
            /\ Len(pushed[f]) = nCards[f] - 1
            /\ ~SequencerStuck(f)

\* C6 (as claimed): for both faces the mode selected is "same image" (1) when the
\* face has exactly one descriptor, and "different images" (0) otherwise.
C6_ModeByCountBothFaces ==
    \A f \in Faces : \A i \in 1..Len(mode[f]) :
        mode[f][i] = IF nCards[f] = 1 THEN 1 ELSE 0

\* The page transition of face f is behind the driver.
Paged(f) ==
    IF f = "front"
    THEN state \in {"InsertingFronts", "PagingToBacks", "InsertingBacks", "PagingToReview"}
    ELSE state \in {"InsertingBacks", "PagingToReview"}

\* C6 (as amended): the page transition of the back face selects "same image" (1)
\* when the back collection has exactly one descriptor and "different images" (0)
\* otherwise; the page transition of the front face selects "different images" (0)
\* whatever the count.
C6_ModeByCountBacksOnly ==
    \A f \in Faces :
        /\ Paged(f) => Len(mode[f]) >= 1
        /\ \A i \in 1..Len(mode[f]) :
              mode[f][i] = IF f = "back" /\ nCards[f] = 1 THEN 1 ELSE 0

\* C6 witness: one front and one back: different images for the front, same image
\* for the back.
C6_Witness ==
    /\ nCards["front"] = 1
    /\ nCards["back"] = 1
    /\ mode["front"] = <<0>>
    /\ mode["back"] = <<1>>

\* C7: insert_fronts selects "different images" (0) for the front face, whatever
\* the number of front descriptors.
C7_FrontsAlwaysDifferent ==
    /\ Paged("front") => Len(mode["front"]) >= 1
    /\ \A i \in 1..Len(mode["front"]) : mode["front"][i] = 0

\* C7 witness: the front collection has exactly one descriptor and the front page
\* transition is done.
C7_Witness ==
    /\ nCards["front"] = 1
    /\ state = "InsertingFronts"
    /\ mode["front"] = <<0>>

\* The number of slot-list entries of the first n descriptors of face f.
RECURSIVE SlotTotal(_, _)
SlotTotal(f, n) == IF n = 0 THEN 0 ELSE Len(Slots(<<f, n>>)) + SlotTotal(f, n - 1)

\* C8 (as claimed): when insert_fronts has returned normally and every front was
\* fetched, each front's asset was submitted exactly once and there is one insert
\* command per entry of each front's slot list.
C8_OneUploadPerDescriptor ==
    (result.op = "insert_fronts" /\ result.outcome = "ok" /\ Cards("front") \subseteq downloaded) =>
        /\ \A a \in Cards("front") :
              LET IsA(x) == x = a IN CountWhere(submitted, IsA) = 1
        /\ LET IsInsert(c) == c[1] = "insert" IN
             CountWhere(cmds, IsInsert) = SlotTotal("front", nCards["front"])

\* The session commands issued since the last "l = PageLayout.prototype".
LastLayout ==
    LET L == {i \in 1..Len(cmds) : cmds[i][1] = "layout"} IN
      IF L = {} THEN 0 ELSE CHOOSE i \in L : \A j \in L : j <= i
SinceLayout == SubSeq(cmds, LastLayout + 1, Len(cmds))

\* The first k placement commands that image's slot list asks for.
Placements(k) == [j \in 1..k |-> <<"insert", pid, Slots(image)[j]>>]

\* insert_image has issued exactly the placements of the slots it has gone through,
\* in the slot list's order; when it is over, those of the whole list.
InsertProgress ==
    /\ pc = "i_slot" => slotIx >= 1 /\ slotIx <= Len(Slots(image)) + 1
                        /\ SinceLayout = Placements(slotIx - 1)
    /\ pc = "i_wait" => slotIx >= 1 /\ slotIx <= Len(Slots(image))
                        /\ SinceLayout = Placements(slotIx)
    /\ (pc = "seq_update" /\ pid # 0) => SinceLayout = Placements(Len(Slots(image)))

IssuesInsert ==
    /\ Len(cmds') = Len(cmds) + 1
    /\ cmds'[Len(cmds')][1] = "insert"

\* C9: with an upload identifier, insert_image issues one placement command per entry
\* of the slot list, in the list's order and no others; a placement command is issued
\* when none is outstanding (the driver is not in the wait that follows one) and,
\* after the first, when the loading indicator has been seen to clear.
C9_SequentialPlacements ==
    [][/\ InsertProgress'
       /\ IssuesInsert => /\ pc = "i_slot"
                          /\ pc' = "i_wait"
                          /\ slotIx > 1 => ~busy]_vars

\* C9 witness: the descriptor with the slot list <<2, 5, 2>> has been placed.
C9_Witness ==
    /\ pc = "seq_update"
    /\ pid # 0
    /\ Slots(image) = <<2, 5, 2>>
    /\ SinceLayout = <<<<"insert", pid, 2>>, <<"insert", pid, 5>>, <<"insert", pid, 2>>>>

\* C10: no descriptor has been put on its collection's queue twice, every descriptor
\* put on it has its downloaded flag set, and the queue holds no more entries than
\* the collection has descriptors.
C10_QueueInvariant ==
    \A f \in Faces :
        /\ \A i, j \in 1..Len(pushed[f]) : i # j => pushed[f][i] # pushed[f][j]
        /\ \A i \in 1..Len(pushed[f]) : pushed[f][i] \in downloaded
        /\ Len(queue[f]) <= nCards[f]

\* C10 witness: both fronts are on the queue, the second ahead of the first, while
\* execute() is still in define_order.
C10_Witness ==
    /\ caller = "execute"
    /\ cur = "define_order"
    /\ queue["front"] = <<<<"front", 2>>, <<"front", 1>>>>

\* The number of descriptors of face f whose downloaded flag is set.
DownloadedOf(f) == Cardinality(downloaded \cap Cards(f))
Marked(f) == {i \in TasksOf(f) : tstat[i] = "marked"}

\* C11 (as claimed): at every moment, for each face, the number of descriptors ever
\* put on the queue equals the number of descriptors with the downloaded flag set,
\* and is at most the face's descriptor count.
C11_PushedEqualsDownloaded ==
    \A f \in Faces :
        /\ Len(pushed[f]) = DownloadedOf(f)
        /\ Len(pushed[f]) <= nCards[f]

\* C11 (as amended): for each face, the number of descriptors ever put on the queue
\* is at most the number with the downloaded flag set, which is at most the face's
\* descriptor count; the two numbers differ by the descriptors a worker has marked
\* and not yet put on the queue, so they are equal when no worker is between the two.
C11_PushedEqualsDownloadedAtRest ==
    \A f \in Faces :
        /\ Len(pushed[f]) + Cardinality(Marked(f)) = DownloadedOf(f)
        /\ DownloadedOf(f) <= nCards[f]

\* C11 witness: the workers are done with two fronts, one fetched and put on the
\* queue, the other failed.
C11_Witness ==
    /\ nCards["front"] = 2
    /\ PipelineDone("front")
    /\ Cardinality(FailedOf("front")) = 1
    /\ Len(pushed["front"]) = 1
    /\ DownloadedOf("front") = 1

\* The descriptors the sequencer has popped from the queues so far.
Popped(f) == SubSeq(pushed[f], 1, Len(pushed[f]) - Len(queue[f]))
TotalPopped == Len(Popped("front")) + Len(Popped("back"))

\* The driver is between a pop and the upload_bar.update() that follows it.
WorkPcs == {"u_start", "u_busywait", "u_submit", "u_poll", "i_start", "i_slot",
            "i_wait", "seq_update"}

\* C12: the uploaded counter is the number of descriptors popped, less the one whose
\* upload and insert are still in progress (or were ended by an exception); it
\* equals the number popped at the head of the sequencer's loop, whether the
\* descriptors were placed or skipped; after a normal return of insert_fronts it is
\* the front count, after one of insert_backs the count of both faces; it is never
\* more than the count of both faces.
C12_UploadedCounter ==
    /\ pc \in WorkPcs => uploaded = TotalPopped - 1
    /\ pc = "seq" => uploaded = TotalPopped
    /\ uploaded \in {TotalPopped, TotalPopped - 1}
    /\ result.outcome = "ok" => uploaded = TotalPopped
    /\ (result.outcome = "ok" /\ result.op = "insert_fronts") => uploaded = nCards["front"]
    /\ (result.outcome = "ok" /\ result.op = "insert_backs") =>
           uploaded = nCards["front"] + nCards["back"]
    /\ uploaded <= nCards["front"] + nCards["back"]

\* C12 witness: insert_backs has returned normally; one front was placed, the other
\* front was skipped because its file was gone, and the back was placed.
C12_Witness ==
    /\ result.op = "insert_backs"
    /\ result.outcome = "ok"
    /\ nCards["front"] = 2
    /\ nCards["back"] = 1
    /\ Cardinality(missing \cap Cards("front")) = 1
    /\ uploaded = 3

\* C13: a dialog shown while upload_image polls never ends upload_image: no operation
\* has ended with UnexpectedAlertPresentException raised from the polling loop; while
\* the loop goes on after a dialog the operation is still in progress with its sample
\* of the list size, and when it has returned after one it has returned the
\* identifier of an entry beyond that sample.
C13_DialogWhilePolling ==
    /\ result.outcome = "UnexpectedAlert" => result.at # "u_poll"
    /\ (dialogs > 0 /\ pc = "u_poll") => cur \in {"insert_fronts", "insert_backs"}
    /\ (dialogs > 0 /\ pc = "i_start") =>
          /\ cur \in {"insert_fronts", "insert_backs"}
          /\ pid # 0
          /\ pid > num_elems
          /\ pid <= Len(uploads)

\* C13 witness: upload_image has returned an identifier after a dialog was shown
\* during its polling.
C13_Witness ==
    /\ pc = "i_start"
    /\ dialogs = 1
    /\ pid = 1
    /\ uploads = <<image>>

\* C14 (as claimed): no public operation ends with the exception an unsolicited
\* dialog raises, wherever in upload, insert or a page transition the dialog is shown.
C14_NoiseNeverPropagates ==
    result.outcome # "UnexpectedAlert"

InsertingStates == {"InsertingFronts", "InsertingBacks"}
Exceptions == {"SessionError", "UnexpectedAlert"}

\* A public operation has ended with an exception raised inside upload_image or
\* insert_image, or the caller has since called again (no operation normally begins
\* or ends in an inserting state).
FailedInside ==
    \/ result.outcome \in Exceptions /\ result.at \in WorkPcs
    \/ cur # "none" /\ pre \in InsertingStates
    \/ result.pre \in InsertingStates

\* C15: a session command that raises inside upload_image or insert_image ends the
\* public operation with that exception, in the Workflow State it was raised in, and
\* ends execute(); from then on the Workflow State is InsertingFronts or
\* InsertingBacks and stays what it is, no session command is issued and no file
\* submitted any more, no further descriptor is popped, and the driver is never
\* again inside the sequencer.
C15_FailureHalts ==
    [][/\ (faults' > faults /\ pc \in WorkPcs) =>
              /\ cur' = "none"
              /\ result'.outcome \in Exceptions
              /\ result'.post = state
              /\ state' = state
              /\ caller = "execute" => pc' = "halted"
       /\ FailedInside =>
              /\ faults > 0
              /\ state \in InsertingStates
              /\ state' = state
              /\ action' = action
              /\ cmds' = cmds
              /\ submitted' = submitted
              /\ TotalPopped' = TotalPopped
              /\ uploaded' = uploaded
              /\ pc' \notin WorkPcs \cup {"seq", "ins_assert"}]_vars

\* C15 witness: execute() has stopped on a rejected placement command, the second
\* of the slot list <<2, 5, 2>>, with the workflow in InsertingFronts.
C15_Witness ==
    /\ caller = "execute"
    /\ pc = "halted"
    /\ result.outcome = "SessionError"
    /\ result.at = "i_slot"
    /\ state = "InsertingFronts"
    /\ Slots(image) = <<2, 5, 2>>
    /\ slotIx = 2
    /\ faults = 1

\* The public operation that works on face f, and the commands of kind k issued.
OpOf(f) == IF f = "front" THEN "insert_fronts" ELSE "insert_backs"
CmdsOf(k) == {i \in 1..Len(cmds) : cmds[i][1] = k}

\* C16: for a face without descriptors, nothing is ever on its queue or submitted
\* for it, its operation is never inside upload or insert, at the head of the
\* sequencer's loop it has no iteration left (it does not wait on the queue), the
\* last session command issued up to its return is the mode selection of its page
\* transition, and it returns normally in its declared exit state.
C16_EmptyFace ==
    \A f \in Faces : nCards[f] = 0 =>
        /\ pushed[f] = <<>> /\ queue[f] = <<>>
        /\ \A i \in 1..Len(submitted) : submitted[i][1] # f
        /\ cur = OpOf(f) => pc \notin WorkPcs
        /\ (cur = OpOf(f) /\ pc = "seq") =>
              /\ remaining = 0
              /\ cmds[Len(cmds)][1] = "setMode"
        /\ (result.op = OpOf(f) /\ result.outcome = "ok") =>
              /\ cmds[Len(cmds)][1] = "setMode"
              /\ state = DeclaredExit[OpOf(f)]
              /\ result.at = "seq"

\* C16 witness: an order with two fronts and no back: insert_backs has returned
\* normally, in PagingToReview.
C16_Witness ==
    /\ nCards["front"] = 2
    /\ nCards["back"] = 0
    /\ result.op = "insert_backs"
    /\ result.outcome = "ok"
    /\ state = "PagingToReview"
    /\ uploaded = 2

\* s without the repetitions of an entry that follow it directly.
RECURSIVE Dedup(_)
Dedup(s) ==
    IF Len(s) <= 1 THEN s
    ELSE IF s[1] = s[2] THEN Dedup(Tail(s))
         ELSE <<s[1]>> \o Dedup(Tail(s))

\* The slot lists of the descriptors of s, one after the other.
RECURSIVE SlotsOfAll(_)
SlotsOfAll(s) == IF s = <<>> THEN <<>> ELSE Slots(Head(s)) \o SlotsOfAll(Tail(s))

IsPrefix(s, t) == Len(s) <= Len(t) /\ SubSeq(t, 1, Len(s)) = s

\* The descriptors popped so far whose file was there, fronts before backs: the
\* order of the queues.
IsThere(a) == a \notin missing
Delivered == SelectSeq(Popped("front") \o Popped("back"), IsThere)

\* C17: the assets submitted are, in order and apart from re-submissions, the
\* descriptors in the order they were put on the queues (all but at most the last
\* one popped, whose upload may not have begun), none of them twice; the descriptor
\* in work is the last one popped; the slots of the placement commands are, in
\* order, the slot lists of the descriptors in that same order.
C17_QueueOrder ==
    /\ IsPrefix(Dedup(submitted), Delivered)
    /\ Len(Dedup(submitted)) >= Len(Delivered) - 1
    /\ \A i, j \in 1..Len(Delivered) : i # j => Delivered[i] # Delivered[j]
    /\ pc \in WorkPcs =>
          /\ Popped(face) # <<>>
          /\ image = Popped(face)[Len(Popped(face))]
    /\ LET ins == SelectSeq(cmds, LAMBDA c : c[1] = "insert") IN
         IsPrefix([i \in 1..Len(ins) |-> ins[i][3]], SlotsOfAll(Delivered))

\* C17 witness: the second front was put on the queue before the first; both have
\* been uploaded and placed, the second first.
C17_Witness ==
    /\ pushed["front"] = <<<<"front", 2>>, <<"front", 1>>>>
    /\ submitted = <<<<"front", 2>>, <<"front", 1>>>>
    /\ LET ins == SelectSeq(cmds, LAMBDA c : c[1] = "insert") IN
         [i \in 1..Len(ins) |-> ins[i][3]] = <<2, 5, 2, 0>>
    /\ pc = "seq"

\* The paging and inserting state of a face.
PagingState(f) == IF f = "front" THEN "PagingToFronts" ELSE "PagingToBacks"
InsertingState(f) == IF f = "front" THEN "InsertingFronts" ELSE "InsertingBacks"

\* C18: within the calls execute() makes (each public operation once, in order), a
\* mode selection command is issued from the page transition with the workflow in
\* the face's paging state, it is the face's first, and no file of the face has
\* been submitted before it; an upload, layout or placement command is issued with
\* the workflow in the face's inserting state and exactly one mode selection made
\* for the face; and once the workflow is past a face's paging state exactly one
\* mode selection has been made for it.
C18_ModeOncePerFace ==
    [][probes' = 0 =>
         /\ \A f \in Faces : Len(mode'[f]) <= 1
         /\ \A f \in Faces : Paged(f)' => Len(mode'[f]) = 1
         /\ Len(cmds') > Len(cmds) =>
              LET new == cmds'[Len(cmds')] IN
                /\ new[1] = "setMode" =>
                      /\ pc \in {"ptf_mode", "ptb_mode"}
                      /\ state = PagingState(face)
                      /\ mode[face] = <<>>
                      /\ \A i \in 1..Len(submitted) : submitted[i][1] # face
                      /\ face = "front" => CmdsOf("upload") \cup CmdsOf("insert") = {}
                /\ new[1] \in {"upload", "layout", "insert"} =>
                      /\ pc \in WorkPcs
                      /\ state = InsertingState(face)
                      /\ Len(mode[face]) = 1]_vars

\* C18 witness: both faces' phases are over in execute(): two mode selections, the
\* first ahead of every upload and placement, the second after those of the fronts.
C18_Witness ==
    /\ caller = "execute"
    /\ state = "PagingToReview"
    /\ nCards["front"] = 2
    /\ nCards["back"] = 1
    /\ Cardinality(CmdsOf("setMode")) = 2
    /\ \E j \in CmdsOf("setMode") :
          /\ \E i \in CmdsOf("insert") : i < j
          /\ \E i \in CmdsOf("insert") : i > j

\* C19: placement commands carry an identifier; when the popped descriptor's file is
\* gone, upload_image has submitted nothing for it and returned no identifier,
\* insert_image issues no command, the Workflow State is the inserting state it
\* was, and no exception ends the operation there.
C19_NoFileNoInsert ==
    /\ \A i \in CmdsOf("insert") : cmds[i][2] # 0
    /\ pc \in {"i_slot", "i_wait"} => pid # 0
    /\ (pc \in WorkPcs /\ image \in missing) =>
          /\ pc \in {"u_start", "i_start", "seq_update"}
          /\ pid = 0
          /\ \A i \in 1..Len(submitted) : submitted[i] # image
          /\ state = InsertingState(face)
          /\ cur = OpOf(face)
    /\ \A a \in missing : \A i \in 1..Len(submitted) : submitted[i] # a
    /\ (result.outcome \in Exceptions /\ result.at \in WorkPcs) => image \notin missing

\* C19 witness: the first front popped was skipped because its file was gone, and
\* the sequencer is placing the second.
C19_Witness ==
    /\ Len(Popped("front")) = 2
    /\ Popped("front")[1] \in missing
    /\ image = Popped("front")[2]
    /\ submitted = <<image>>
    /\ pc = "i_wait"
    /\ uploaded = 1

\* C20 (as claimed): the identifier upload_image returns for a descriptor is that of
\* an entry of the list of uploads made from the descriptor's own file.
C20_OwnIdentifier ==
    (pc \in {"i_start", "i_slot", "i_wait"} /\ pid # 0) => uploads[pid] = image

====
